---- MODULE Spec2Model ----
(***************************************************************************)
(* Model of src/generative/normalizing_flow.py: PlanarFlow,                *)
(* FlowRandomVariable, FlowConditionalVariable, DynaFlowRandomVariable and *)
(* DynaFlowConditionalRandomVariable.                                      *)
(*                                                                         *)
(* Numbers.  The program computes on floating point tensors.  Here a       *)
(* number is an exact rational [n |-> numerator, d |-> denominator] in     *)
(* lowest terms with d > 0; d = 0 is the undefined value (IEEE NaN, as     *)
(* produced by 0/0), which every operation propagates and every            *)
(* comparison rejects.  +, -, *, / are exact.  The library functions       *)
(* tf.tanh, tf.nn.softplus, tf.log and Normal.log_prob are replaced by     *)
(* approximations with values in quarters that keep what the program       *)
(* relies on: tanh is odd, monotone, bounded by 1 and 0 at 0; softplus is  *)
(* strictly positive, monotone and never below its argument; log is        *)
(* monotone, 0 at 1 and undefined at 0.                                    *)
(*                                                                         *)
(* Tensors.  A tensor is [shape |-> <<s1, .., sr>>, data |-> row-major     *)
(* sequence of numbers], as in TensorFlow: reshape, squeeze and            *)
(* expand_dims change the shape only, and element-wise operations          *)
(* broadcast from the trailing axis.                                       *)
(***************************************************************************)
EXTENDS Integers, Sequences, FiniteSets, TLC

\* ------------------------------------------------------------- numbers

Abs(i) == IF i < 0 THEN -i ELSE i

RECURSIVE Gcd(_, _)
Gcd(a, b) == IF b = 0 THEN a ELSE Gcd(b, a % b)

Undef == [n |-> 0, d |-> 0]

IsUndef(q) == q.d = 0

\* n/d in lowest terms with a positive denominator; x/0 is undefined
Q(n, d) ==
    IF d = 0 THEN Undef
    ELSE LET g == Gcd(Abs(n), Abs(d))
             s == IF d < 0 THEN -1 ELSE 1
         IN [n |-> s * (n \div g), d |-> s * (d \div g)]

QInt(i) == [n |-> i, d |-> 1]

QAdd(a, b) ==
    IF IsUndef(a) \/ IsUndef(b) THEN Undef
    ELSE LET g == Gcd(a.d, b.d)
         IN Q(a.n * (b.d \div g) + b.n * (a.d \div g), a.d * (b.d \div g))

QNeg(a) == [n |-> -a.n, d |-> a.d]

QSub(a, b) == QAdd(a, QNeg(b))

QMul(a, b) ==
    IF IsUndef(a) \/ IsUndef(b) THEN Undef
    ELSE LET g1 == Gcd(Abs(a.n), b.d)
             g2 == Gcd(Abs(b.n), a.d)
         IN Q((a.n \div g1) * (b.n \div g2), (a.d \div g2) * (b.d \div g1))

QDiv(a, b) ==
    IF IsUndef(a) \/ IsUndef(b) \/ b.n = 0 THEN Undef
    ELSE QMul(a, Q(b.d, b.n))

QAbs(a) == [n |-> Abs(a.n), d |-> a.d]

\* a >= b; false when either side is undefined (NaN compares false)
QGe(a, b) == ~IsUndef(a) /\ ~IsUndef(b) /\ a.n * b.d >= b.n * a.d

QOne == QInt(1)

QZero == QInt(0)

\* x truncated towards zero to a multiple of 1/4: the precision to which
\* the library functions below are evaluated
QGrid(x) ==
    IF IsUndef(x) THEN Undef
    ELSE Q((IF x.n < 0 THEN -1 ELSE 1) * ((4 * Abs(x.n)) \div x.d), 4)

\* tf.tanh: the identity near 0, saturating at -1 and 1
QTanh(x) ==
    IF IsUndef(x) THEN Undef
    ELSE IF QGe(x, QOne) THEN QOne
    ELSE IF QGe(QInt(-1), x) THEN QInt(-1)
    ELSE QGrid(x)

\* tf.nn.softplus: x + 1/2 for x >= 0 and 1/4 below 0
QSoftplus(x) ==
    IF IsUndef(x) THEN Undef
    ELSE IF QGe(x, QZero) THEN QAdd(QGrid(x), Q(1, 2))
    ELSE Q(1, 4)

\* tf.log on x >= 0: 2 (x - 1) / (x + 1), undefined at 0
QLog(x) ==
    IF IsUndef(x) \/ x.n <= 0 THEN Undef
    ELSE QGrid(QDiv(QMul(QInt(2), QSub(x, QOne)), QAdd(x, QOne)))

\* log density of the standard normal at x: -x^2/2 - log(sqrt(2 pi)), the
\* constant rounded to 1
QNormalLogProb(x) == QSub(QNeg(QDiv(QMul(x, x), QInt(2))), QOne)

\* ------------------------------------------------------------- tensors

RECURSIVE Prod(_)
Prod(shape) == IF shape = <<>> THEN 1 ELSE Head(shape) * Prod(Tail(shape))

Rank(t) == Len(t.shape)

\* flat 0-based offset of the 0-based multi-index idx in a tensor of that shape
RECURSIVE Ravel(_, _)
Ravel(idx, shape) ==
    IF shape = <<>> THEN 0
    ELSE LET r == Len(shape)
         IN Ravel(SubSeq(idx, 1, r - 1), SubSeq(shape, 1, r - 1)) * shape[r] + idx[r]

RECURSIVE Unravel(_, _)
Unravel(k, shape) ==
    IF shape = <<>> THEN <<>>
    ELSE LET r == Len(shape)
         IN Append(Unravel(k \div shape[r], SubSeq(shape, 1, r - 1)), k % shape[r])

At(t, idx) == t.data[Ravel(idx, t.shape) + 1]

\* the multi-indices of a tensor of that shape, in row-major order
Indices(shape) == [k \in 1..Prod(shape) |-> Unravel(k - 1, shape)]

Scalar(q) == [shape |-> <<>>, data |-> <<q>>]

\* the element-wise library functions
TTanh(t) == [shape |-> t.shape, data |-> [k \in 1..Len(t.data) |-> QTanh(t.data[k])]]

TSoftplus(t) == [shape |-> t.shape, data |-> [k \in 1..Len(t.data) |-> QSoftplus(t.data[k])]]

TLog(t) == [shape |-> t.shape, data |-> [k \in 1..Len(t.data) |-> QLog(t.data[k])]]

TAbs(t) == [shape |-> t.shape, data |-> [k \in 1..Len(t.data) |-> QAbs(t.data[k])]]

TNeg(t) == [shape |-> t.shape, data |-> [k \in 1..Len(t.data) |-> QNeg(t.data[k])]]

\* tf.pow(t, 2)
TSquare(t) ==
    [shape |-> t.shape, data |-> [k \in 1..Len(t.data) |-> QMul(t.data[k], t.data[k])]]

TNormalLogProb(t) ==
    [shape |-> t.shape, data |-> [k \in 1..Len(t.data) |-> QNormalLogProb(t.data[k])]]

Max(a, b) == IF a >= b THEN a ELSE b

\* numpy broadcasting of two shapes, aligned at the trailing axis
BShape(sa, sb) ==
    LET r == Max(Len(sa), Len(sb))
        da(j) == IF j - (r - Len(sa)) >= 1 THEN sa[j - (r - Len(sa))] ELSE 1
        db(j) == IF j - (r - Len(sb)) >= 1 THEN sb[j - (r - Len(sb))] ELSE 1
    IN [j \in 1..r |-> Max(da(j), db(j))]

BCompatible(sa, sb) ==
    LET r == Max(Len(sa), Len(sb))
        da(j) == IF j - (r - Len(sa)) >= 1 THEN sa[j - (r - Len(sa))] ELSE 1
        db(j) == IF j - (r - Len(sb)) >= 1 THEN sb[j - (r - Len(sb))] ELSE 1
    IN \A j \in 1..r : da(j) = db(j) \/ da(j) = 1 \/ db(j) = 1

\* the index into a tensor of shape s that the broadcast index idx reads
BIndex(idx, s) ==
    LET off == Len(idx) - Len(s)
    IN [j \in 1..Len(s) |-> IF s[j] = 1 THEN 0 ELSE idx[j + off]]

\* the element-wise binary operations, with broadcasting
TAdd(a, b) ==
    LET ix == Indices(BShape(a.shape, b.shape))
    IN [shape |-> BShape(a.shape, b.shape),
        data |-> [k \in 1..Len(ix) |->
                     QAdd(At(a, BIndex(ix[k], a.shape)), At(b, BIndex(ix[k], b.shape)))]]

TSub(a, b) ==
    LET ix == Indices(BShape(a.shape, b.shape))
    IN [shape |-> BShape(a.shape, b.shape),
        data |-> [k \in 1..Len(ix) |->
                     QSub(At(a, BIndex(ix[k], a.shape)), At(b, BIndex(ix[k], b.shape)))]]

TMul(a, b) ==
    LET ix == Indices(BShape(a.shape, b.shape))
    IN [shape |-> BShape(a.shape, b.shape),
        data |-> [k \in 1..Len(ix) |->
                     QMul(At(a, BIndex(ix[k], a.shape)), At(b, BIndex(ix[k], b.shape)))]]

TDiv(a, b) ==
    LET ix == Indices(BShape(a.shape, b.shape))
    IN [shape |-> BShape(a.shape, b.shape),
        data |-> [k \in 1..Len(ix) |->
                     QDiv(At(a, BIndex(ix[k], a.shape)), At(b, BIndex(ix[k], b.shape)))]]

RECURSIVE QSum(_)
QSum(s) == IF s = <<>> THEN QZero ELSE QAdd(Head(s), QSum(Tail(s)))

\* idx with value v inserted at (1-based) position p
InsertAt(idx, p, v) == SubSeq(idx, 1, p - 1) \o <<v>> \o SubSeq(idx, p, Len(idx))

RemoveAt(s, p) == SubSeq(s, 1, p - 1) \o SubSeq(s, p + 1, Len(s))

\* tf.reduce_sum(t, axis, keepdims); axis is 0-based
TReduceSum(t, axis, keepdims) ==
    LET p == axis + 1
        rest == RemoveAt(t.shape, p)
        ix == Indices(rest)
        summed == [k \in 1..Len(ix) |->
                      QSum([v \in 1..t.shape[p] |-> At(t, InsertAt(ix[k], p, v - 1))])]
    IN IF keepdims
       THEN [shape |-> [j \in 1..Rank(t) |-> IF j = p THEN 1 ELSE t.shape[j]],
             data |-> summed]
       ELSE [shape |-> rest, data |-> summed]

\* tf.slice(t, begin, size); a size of -1 takes the rest of the axis
TSlice(t, begin, size) ==
    LET shp == [j \in 1..Rank(t) |->
                   IF size[j] = -1 THEN t.shape[j] - begin[j] ELSE size[j]]
        ix == Indices(shp)
    IN [shape |-> shp,
        data |-> [k \in 1..Len(ix) |-> At(t, [j \in 1..Rank(t) |-> ix[k][j] + begin[j]])]]

\* tf.concat of two tensors along the 0-based axis
TConcat2(a, b, axis) ==
    LET p == axis + 1
        shp == [j \in 1..Rank(a) |-> IF j = p THEN a.shape[j] + b.shape[j] ELSE a.shape[j]]
        ix == Indices(shp)
    IN [shape |-> shp,
        data |-> [k \in 1..Len(ix) |->
                     IF ix[k][p] < a.shape[p] THEN At(a, ix[k])
                     ELSE At(b, [ix[k] EXCEPT ![p] = ix[k][p] - a.shape[p]])]]

\* tf.concat of a non-empty list of tensors
RECURSIVE TConcat(_, _)
TConcat(ts, axis) ==
    IF Len(ts) = 1 THEN ts[1]
    ELSE TConcat2(TConcat(SubSeq(ts, 1, Len(ts) - 1), axis), ts[Len(ts)], axis)

TReshape(t, shape) == [shape |-> shape, data |-> t.data]

RECURSIVE DropOnes(_)
DropOnes(shape) ==
    IF shape = <<>> THEN <<>>
    ELSE IF Head(shape) = 1 THEN DropOnes(Tail(shape))
    ELSE <<Head(shape)>> \o DropOnes(Tail(shape))

\* tf.squeeze without an axis argument: every axis of size 1 is removed
TSqueeze(t) == [shape |-> DropOnes(t.shape), data |-> t.data]

TExpandDims(t, axis) == [shape |-> InsertAt(t.shape, axis + 1, 1), data |-> t.data]

\* tf.matmul(a, b): the last two axes are multiplied, a leading axis is a batch
TMatMul(a, b) ==
    LET r == Rank(a)
        inner == a.shape[r]
        shp == [a.shape EXCEPT ![r] = b.shape[r]]
        ix == Indices(shp)
    IN [shape |-> shp,
        data |-> [m \in 1..Len(ix) |->
                     QSum([k \in 1..inner |->
                              QMul(At(a, [ix[m] EXCEPT ![r] = k - 1]),
                                   At(b, [ix[m] EXCEPT ![r - 1] = k - 1]))])]]

\* tf.matmul(a, b, transpose_b=True) for matrices
TMatMulT(a, b) ==
    LET ix == Indices(<<a.shape[1], b.shape[1]>>)
    IN [shape |-> <<a.shape[1], b.shape[1]>>,
        data |-> [m \in 1..Len(ix) |->
                     QSum([k \in 1..a.shape[2] |->
                              QMul(At(a, <<ix[m][1], k - 1>>), At(b, <<ix[m][2], k - 1>>))])]]

\* a matrix of integers as a tensor
IntMatrix(rows) ==
    [shape |-> <<Len(rows), Len(rows[1])>>,
     data |-> [k \in 1..(Len(rows) * Len(rows[1])) |->
                  QInt(rows[((k - 1) \div Len(rows[1])) + 1][((k - 1) % Len(rows[1])) + 1])]]

IntVector(v) == [shape |-> <<Len(v)>>, data |-> [k \in 1..Len(v) |-> QInt(v[k])]]

\* ---------------------------------------------------------- PlanarFlow

\* PlanarFlow.reversible_constraint
reversible_constraint(w, u) ==
    LET dot == TReduceSum(TMul(u, w), 1, TRUE)
        scalar == TSub(TAdd(Scalar(QInt(-1)), TSoftplus(dot)), dot)
        norm_squared == TReduceSum(TMul(w, w), 1, TRUE)
        comp == TDiv(TMul(scalar, w), norm_squared)
    IN TAdd(u, comp)

\* PlanarFlow.__init__ once w, b, u are known (supplied or created)
PlanarFlow(dim, w, b, u) ==
    [dim |-> dim, w |-> w, b |-> b, u |-> u,
     u_bar |-> reversible_constraint(w, u),
     n_flows |-> u.shape[1]]

get_flow_number(flow) == flow.n_flows

is_single_flow(flow) == flow.n_flows = 1

\* the n_flows > 1 dialation with the bias of flow 0 added for every flow
MultiDialationSharedBias(flow, inputs) ==
    TAdd(TMatMul(inputs, TExpandDims(flow.w, 2)),
         TSlice(flow.b, <<0>>, <<1>>))

\* the dialation of the n_flows > 1 branch: one dot product per flow and
\* sample, plus that flow's bias
MultiDialation(flow, inputs) ==
    TAdd(TMatMul(inputs, TExpandDims(flow.w, 2)),
         TExpandDims(TExpandDims(flow.b, 1), 2))

\* PlanarFlow.transform
transform(flow, inputs) ==
    IF is_single_flow(flow)
    THEN LET dialation == TAdd(TMatMulT(inputs, flow.w), flow.b)
         IN TAdd(inputs, TMul(flow.u_bar, TTanh(dialation)))
    ELSE LET dialation == MultiDialation(flow, inputs)
         IN TAdd(inputs, TMul(TExpandDims(flow.u_bar, 1), TTanh(dialation)))

Psi(dialation) ==
    TSub(Scalar(QOne), TSquare(TTanh(dialation)))

\* the result of log_det_jacobian from 1 + det_jac
LogDetResult(det_jac) ==
    TNeg(TSqueeze(TLog(TAbs(TAdd(Scalar(QOne), det_jac)))))

\* PlanarFlow.log_det_jacobian
log_det_jacobian(flow, inputs) ==
    IF is_single_flow(flow)
    THEN LET dialation == TAdd(TMatMulT(inputs, flow.w), flow.b)
             psi == Psi(dialation)
             det_jac == TMul(TMatMulT(flow.u_bar, flow.w), psi)
         IN LogDetResult(det_jac)
    ELSE LET dialation == MultiDialation(flow, inputs)
             psi == Psi(dialation)
             dot == TExpandDims(TReduceSum(TMul(flow.u_bar, flow.w), 1, TRUE), 1)
             det_jac == TMul(dot, psi)
         IN LogDetResult(det_jac)

\* -------------------------------------------------------------- inputs

\* the largest feature dimension, number of parallel flows (rows of a
\* supplied w, b, u; examples of a covariate) and batch size explored
MaxDim == 2

MaxFlows == 2

MaxSamples == 2

\* the parameter rows explored are rows 0 .. NumParams - 1 below; the
\* tensors of samples explored are those of seeds 0 .. NumSeeds - 1
NumParams == 3

NumSeeds == 2

\* row p of the parameter palette: row 0 has a zero w; every other row has
\* a non-zero first component of w
WRow(p, dim) ==
    [j \in 1..dim |->
        IF p = 0 THEN 0
        ELSE IF j = 1 THEN (IF p % 2 = 1 THEN 1 ELSE -1)
        ELSE ((p + j) % 3) - 1]

URow(p, dim) == [j \in 1..dim |-> IF p = 0 THEN 1 ELSE ((2 * p + j) % 3) - 1]

BVal(p) == (p % 3) - 1

\* the parameters (w, b, u) whose rows are the palette rows ps[1], ps[2], ..
ParamsOf(ps, dim) ==
    [w |-> IntMatrix([f \in 1..Len(ps) |-> WRow(ps[f], dim)]),
     b |-> IntVector([f \in 1..Len(ps) |-> BVal(ps[f])]),
     u |-> IntMatrix([f \in 1..Len(ps) |-> URow(ps[f], dim)])]

\* sequences of palette rows of length 1 .. n
RowChoices(n) == UNION {[1..m -> 0..(NumParams - 1)] : m \in 1..n}

\* a tensor of sample values of the given shape
SampleTensor(shape, seed) ==
    [shape |-> shape,
     data |-> [k \in 1..Prod(shape) |-> QInt(((seed * k + k - 1) % 4) - 1)]]

NoObject == [none |-> TRUE]

VARIABLES pc, arg, self, loc, ret

vars == <<pc, arg, self, loc, ret>>

\* ------------------------------------------------- PlanarFlow, in use

\* PlanarFlow(dim) or PlanarFlow(dim, w, b, u) is about to be constructed
InitPlanar ==
    /\ pc = "start"
    /\ \E dim \in 1..MaxDim :
          \/ arg = [dim |-> dim, given |-> FALSE]
          \/ \E ps \in RowChoices(MaxFlows) :
                arg = [dim |-> dim, given |-> TRUE] @@ ParamsOf(ps, dim)
    /\ self = NoObject
    /\ loc = <<>>
    /\ ret = NoObject

\* PlanarFlow.create_flow_variables: one row of normal draws each, which
\* is (almost surely) not the zero vector
create_flow_variables(p, dim) == ParamsOf(<<p>>, dim)

\* PlanarFlow.__init__
PlanarFlowInit ==
    /\ pc = "start"
    /\ \/ /\ ~arg.given
          /\ \E p \in 1..(NumParams - 1) :
                LET v == create_flow_variables(p, arg.dim)
                IN self' = PlanarFlow(arg.dim, v.w, v.b, v.u)
       \/ /\ arg.given
          /\ self' = PlanarFlow(arg.dim, arg.w, arg.b, arg.u)
    /\ pc' = "ready"
    /\ UNCHANGED <<arg, loc, ret>>

\* the shape transform and log_det_jacobian document for their inputs
InputShape(flow, n) ==
    IF flow.n_flows = 1 THEN <<n, flow.dim>> ELSE <<flow.n_flows, n, flow.dim>>

\* a call of flow.transform(inputs)
CallTransform ==
    /\ pc = "ready"
    /\ \E n \in 1..MaxSamples, seed \in 0..(NumSeeds - 1) :
          LET inputs == SampleTensor(InputShape(self, n), seed)
          IN ret' = [op |-> "transform", inputs |-> inputs,
                     out |-> transform(self, inputs)]
    /\ pc' = "called"
    /\ UNCHANGED <<arg, self, loc>>

\* a call of flow.log_det_jacobian(inputs)
CallLogDetJacobian ==
    /\ pc = "ready"
    /\ \E n \in 1..MaxSamples, seed \in 0..(NumSeeds - 1) :
          LET inputs == SampleTensor(InputShape(self, n), seed)
          IN ret' = [op |-> "log_det_jacobian", inputs |-> inputs,
                     out |-> log_det_jacobian(self, inputs)]
    /\ pc' = "called"
    /\ UNCHANGED <<arg, self, loc>>

NextPlanar == PlanarFlowInit \/ CallTransform \/ CallLogDetJacobian

SpecPlanar == InitPlanar /\ [][NextPlanar]_vars

\* ------------------------- FlowRandomVariable, FlowConditionalVariable

MaxLayers == 2

\* variational.MultiLayerPerceptron(input, layers).get_output_layer(): a
\* matrix with one row per row of the input and as many columns as the last
\* layer is wide; row r is a function of row r of the input and of the
\* perceptron's own weights (which the salt stands for) only
MLPUnit(salt, row, c) ==
    LET s == IF salt = "w" THEN 1 ELSE IF salt = "u" THEN 2 ELSE 3
        h == QSum([j \in 1..Len(row) |-> QMul(QInt(j + s), row[j])])
    IN ((h.n * (c + 1) + s * c + c * c) % 3) - 1

InputRow(input, r) == [j \in 1..input.shape[2] |-> At(input, <<r, j - 1>>)]

MLPOutput(salt, input, width) ==
    LET ix == Indices(<<input.shape[1], width>>)
    IN [shape |-> <<input.shape[1], width>>,
        data |-> [k \in 1..Len(ix) |->
                     QInt(MLPUnit(salt, InputRow(input, ix[k][1]), ix[k][2]))]]

\* the three perceptrons of a conditional variable have weights of their own
SaltW == "w"

SaltU == "u"

SaltB == "b"

\* the base distribution: "dist" is a tf Distribution over dim components
\* (the default standard normal); "pair" is a precomputed (samples, log_prob)
PairBase(shape, seed) ==
    [kind |-> "pair",
     samples |-> SampleTensor(shape, seed),
     log_prob |-> SampleTensor(SubSeq(shape, 1, Len(shape) - 1), seed + 1)]

DistBase == [kind |-> "dist"]

BaseChoices(batch, dim) ==
    {DistBase} \cup
    {PairBase(batch \o <<n, dim>>, seed) : n \in 1..MaxSamples, seed \in 0..(NumSeeds - 1)}

InitFlow ==
    /\ pc = "start"
    /\ \/ \E dim \in 1..MaxDim, L \in 0..MaxLayers :
             \E base \in BaseChoices(<<>>, dim) :
                arg = [cls |-> "FlowRandomVariable", dim |-> dim,
                       num_layers |-> L, base_dist |-> base]
       \/ \E dim_x \in 1..MaxDim, N \in 1..MaxFlows, L \in 1..MaxLayers,
             seed \in 0..(NumSeeds - 1) :
             \E base \in BaseChoices(IF N = 1 THEN <<>> ELSE <<N>>, dim_x) :
                arg = [cls |-> "FlowConditionalVariable", dim_x |-> dim_x,
                       y |-> SampleTensor(<<N, MaxDim>>, seed),
                       flow_layers |-> L, base_dist |-> base]
    /\ self = NoObject
    /\ loc = <<>>
    /\ ret = NoObject

\* FlowRandomVariable.__init__ with flows=None: num_layers new PlanarFlow(dim)
NewFlowRandomVariable(dim, num_layers, ps, base_dist) ==
    [dim |-> dim, num_layers |-> num_layers, base_dist |-> base_dist,
     flows |-> [k \in 1..num_layers |->
                   LET v == create_flow_variables(ps[k], dim)
                   IN PlanarFlow(dim, v.w, v.b, v.u)]]

\* FlowRandomVariable.__init__ with a list of flows: num_layers keeps the
\* value of its parameter, and the length of the list is stored in the
\* attribute num_layrs
FlowRandomVariableOf(dim, num_layers, flows, base_dist) ==
    [dim |-> dim, num_layers |-> num_layers, base_dist |-> base_dist,
     flows |-> flows, num_layrs |-> Len(flows)]

\* the default of the parameter num_layers of FlowRandomVariable.__init__
DefaultNumLayers == 1

FlowRandomVariableInit ==
    /\ pc = "start"
    /\ arg.cls = "FlowRandomVariable"
    /\ \E ps \in [1..arg.num_layers -> 1..(NumParams - 1)] :
          self' = NewFlowRandomVariable(arg.dim, arg.num_layers, ps, arg.base_dist)
    /\ pc' = "ready"
    /\ UNCHANGED <<arg, loc, ret>>

\* columns [i * width, (i + 1) * width) of the output of a mapping
LayerColumnsUnitStride(all, i, width) == TSlice(all, <<0, i>>, <<-1, width>>)

LayerColumns(all, i, width) == TSlice(all, <<0, i * width>>, <<-1, width>>)

\* FlowConditionalVariable.set_up_flows, the flow of layer i (0-based)
ConditionalFlow(all_w, all_u, all_b, i, dim_x) ==
    LET w == LayerColumns(all_w, i, dim_x)
        u == LayerColumns(all_u, i, dim_x)
        b == TSqueeze(TSlice(all_b, <<0, i>>, <<-1, 1>>))
    IN PlanarFlow(b, w, b, u)

\* FlowConditionalVariable.__init__ and set_up_flows
NewFlowConditionalVariable(dim_x, y, flow_layers, base_dist) ==
    LET all_w == MLPOutput(SaltW, y, dim_x * flow_layers)
        all_u == MLPOutput(SaltU, y, dim_x * flow_layers)
        all_b == MLPOutput(SaltB, y, flow_layers)
        flows == [k \in 1..flow_layers |-> ConditionalFlow(all_w, all_u, all_b, k - 1, dim_x)]
    IN [y |-> y, dim_x |-> dim_x, dim_y |-> y.shape[2], flow_layers |-> flow_layers,
        n_points |-> y.shape[1], base_dist |-> base_dist,
        variable |-> FlowRandomVariableOf(dim_x, DefaultNumLayers, flows, base_dist),
        w |-> all_w, u |-> all_u, b |-> all_b]

FlowConditionalVariableInit ==
    /\ pc = "start"
    /\ arg.cls = "FlowConditionalVariable"
    /\ self' = NewFlowConditionalVariable(arg.dim_x, arg.y, arg.flow_layers, arg.base_dist)
    /\ pc' = "ready"
    /\ UNCHANGED <<arg, loc, ret>>

\* the FlowRandomVariable that sample_log_prob runs on
Variable == IF arg.cls = "FlowConditionalVariable" THEN self.variable ELSE self

\* FlowRandomVariable.get_all_flow_params; flows[i] beyond the list and the
\* concatenation of an empty list raise
GetAllFlowParams ==
    /\ pc = "ready"
    /\ LET v == Variable
           flow_range == 1..v.num_layers
       IN IF v.num_layers = 0 \/ v.num_layers > Len(v.flows)
          THEN pc' = "error" /\ ret' = ret
          ELSE /\ pc' = "params"
               /\ ret' = [all_w |-> TConcat([k \in flow_range |-> v.flows[k].w], 1),
                          all_u |-> TConcat([k \in flow_range |-> v.flows[k].u], 1),
                          all_b |-> TConcat([k \in flow_range |-> v.flows[k].b], 0)]
    /\ UNCHANGED <<arg, self, loc>>

\* base_dist.sample(shape) and the sum of base_dist.log_prob over the
\* feature axis
DrawBase(shape, seed) ==
    LET samples == SampleTensor(shape, seed)
    IN [samples |-> samples,
        log_prob |-> TReduceSum(TNormalLogProb(samples), Len(shape) - 1, FALSE)]

\* log_prob += flow.log_det_jacobian(samples), after the transform
StepLogProbAfterTransform(flow, samples, log_prob) ==
    TAdd(log_prob, log_det_jacobian(flow, transform(flow, samples)))

\* log_prob += flow.log_det_jacobian(samples)
StepLogProb(flow, samples, log_prob) ==
    TAdd(log_prob, log_det_jacobian(flow, samples))

\* FlowRandomVariable.sample_log_prob up to the loop; flows[0] of an empty
\* list raises
SampleLogProbBegin ==
    /\ pc = "ready"
    /\ LET v == Variable
       IN IF v.base_dist.kind = "dist"
          THEN IF Len(v.flows) = 0
               THEN pc' = "error" /\ loc' = loc
               ELSE \E n_samples \in 1..MaxSamples, seed \in 0..(NumSeeds - 1) :
                       LET shape == IF is_single_flow(v.flows[1])
                                    THEN <<n_samples, v.dim>>
                                    ELSE <<get_flow_number(v.flows[1]), n_samples, v.dim>>
                           base == DrawBase(shape, seed)
                       IN /\ loc' = [samples |-> base.samples, log_prob |-> base.log_prob,
                                     k |-> 0, base |-> base]
                          /\ pc' = "loop"
          ELSE /\ loc' = [samples |-> v.base_dist.samples,
                          log_prob |-> v.base_dist.log_prob, k |-> 0,
                          base |-> [samples |-> v.base_dist.samples,
                                    log_prob |-> v.base_dist.log_prob]]
               /\ pc' = "loop"
    /\ UNCHANGED <<arg, self, ret>>

\* one iteration of "for flow in self.flows"
SampleLogProbStep ==
    /\ pc = "loop"
    /\ loc.k < Len(Variable.flows)
    /\ LET flow == Variable.flows[loc.k + 1]
       IN loc' = [loc EXCEPT !.log_prob = StepLogProb(flow, loc.samples, loc.log_prob),
                             !.samples = transform(flow, loc.samples),
                             !.k = loc.k + 1]
    /\ UNCHANGED <<pc, arg, self, ret>>

SampleLogProbReturn ==
    /\ pc = "loop"
    /\ loc.k = Len(Variable.flows)
    /\ ret' = [samples |-> loc.samples, log_prob |-> loc.log_prob]
    /\ pc' = "done"
    /\ UNCHANGED <<arg, self, loc>>

NextFlow ==
    \/ FlowRandomVariableInit
    \/ FlowConditionalVariableInit
    \/ GetAllFlowParams
    \/ SampleLogProbBegin
    \/ SampleLogProbStep
    \/ SampleLogProbReturn

SpecFlow == InitFlow /\ [][NextFlow]_vars

\* ------------ DynaFlowRandomVariable, DynaFlowConditionalRandomVariable

MaxTime == 3

\* the width of one observation of y in DynaFlowConditionalRandomVariable
ObsDims == {1, 2}

InitDyna ==
    /\ pc = "start"
    /\ \E dim \in 1..MaxDim, time \in 2..MaxTime, L \in 0..MaxLayers :
          \/ arg = [cls |-> "DynaFlowRandomVariable", dim |-> dim, time |-> time,
                    num_layers |-> L]
          \/ \E N \in 1..MaxFlows, obs \in ObsDims, seed \in 0..(NumSeeds - 1) :
                arg = [cls |-> "DynaFlowConditionalRandomVariable", dim |-> dim,
                       time |-> time, num_layers |-> L,
                       y |-> SampleTensor(<<N, time * obs>>, seed)]
    /\ self = NoObject
    /\ loc = <<>>
    /\ ret = NoObject

\* the palette row drawn for flows[t][i] under one seed of the generator
DynaParamRow(seed, t, i, num_layers) ==
    1 + ((seed + t * num_layers + i + t * i) % (NumParams - 1))

\* DynaFlowRandomVariable.__init__ and setup_flow_layers
NewDynaFlowRandomVariable(dim, time, num_layers, seed) ==
    [full_dim |-> dim * time, dim |-> dim, n_time |-> time, num_layers |-> num_layers,
     flows |-> [t \in 1..(time - 1) |->
                  [i \in 1..num_layers |->
                      LET v == create_flow_variables(
                                  DynaParamRow(seed, t - 1, i - 1, num_layers), 2 * dim)
                      IN PlanarFlow(2 * dim, v.w, v.b, v.u)]]]

DynaFlowRandomVariableInit ==
    /\ pc = "start"
    /\ arg.cls = "DynaFlowRandomVariable"
    /\ \E seed \in 0..(NumSeeds - 1) :
          self' = NewDynaFlowRandomVariable(arg.dim, arg.time, arg.num_layers, seed)
    /\ pc' = "ready"
    /\ UNCHANGED <<arg, loc, ret>>

\* DynaFlowConditionalRandomVariable.unfold_time_pairs
unfold_time_pairs(y, n_example, n_time, obs_dim) ==
    LET unfold == TReshape(y, <<n_example, n_time, obs_dim>>)
        x1 == TSlice(unfold, <<0, 0, 0>>, <<-1, n_time - 1, -1>>)
        x2 == TSlice(unfold, <<0, 1, 0>>, <<-1, -1, -1>>)
    IN TReshape(TConcat2(x1, x2, 2), <<n_example * (n_time - 1), 2 * obs_dim>>)

\* get_flow_parameters with the rows of param_group read time-major
get_flow_parameters_time_major(param_group, time, layer, dim, n_example, n_time, num_layers) ==
    LET grouped == TReshape(param_group, <<n_time - 1, n_example, dim * num_layers>>)
    IN TSqueeze(TSlice(grouped, <<time, 0, layer * dim>>, <<1, -1, dim>>))

\* DynaFlowConditionalRandomVariable.get_flow_parameters
get_flow_parameters(param_group, time, layer, dim, n_example, n_time, num_layers) ==
    LET grouped == TReshape(param_group, <<n_example, n_time - 1, dim * num_layers>>)
    IN TSqueeze(TSlice(grouped, <<0, time, layer * dim>>, <<-1, 1, dim>>))

\* the PlanarFlow of pair t, layer i in setup_flow_layers
TimeLayerFlow(u_mlp, w_mlp, b_mlp, t, i, dim, n_example, n_time, num_layers) ==
    LET time_layer_u == get_flow_parameters(u_mlp, t, i, dim * 2, n_example, n_time, num_layers)
        time_layer_w == get_flow_parameters(w_mlp, t, i, dim * 2, n_example, n_time, num_layers)
        time_layer_b == get_flow_parameters(b_mlp, t, i, 1, n_example, n_time, num_layers)
    IN IF Len(time_layer_u.shape) = 1
       THEN PlanarFlow(2 * dim, TExpandDims(time_layer_w, 0),
                       TExpandDims(time_layer_b, 0), TExpandDims(time_layer_u, 0))
       ELSE PlanarFlow(2 * dim, time_layer_w, time_layer_b, time_layer_u)

\* DynaFlowConditionalRandomVariable.__init__ and setup_flow_layers
NewDynaFlowConditionalRandomVariable(y, dim, time, num_layers) ==
    LET n_example == y.shape[1]
        obs_dim == y.shape[2] \div time
        unfolded == unfold_time_pairs(y, n_example, time, obs_dim)
        u_mlp == MLPOutput(SaltU, unfolded, dim * 2 * num_layers)
        w_mlp == MLPOutput(SaltW, unfolded, dim * 2 * num_layers)
        b_mlp == MLPOutput(SaltB, unfolded, num_layers)
    IN [full_dim |-> dim * time, dim |-> dim, n_time |-> time, num_layers |-> num_layers,
        y |-> y, n_example |-> n_example, obs_dim |-> obs_dim,
        u_mlp |-> u_mlp, w_mlp |-> w_mlp, b_mlp |-> b_mlp,
        flows |-> [t \in 1..(time - 1) |->
                     [i \in 1..num_layers |->
                         TimeLayerFlow(u_mlp, w_mlp, b_mlp, t - 1, i - 1, dim,
                                       n_example, time, num_layers)]]]

DynaFlowConditionalRandomVariableInit ==
    /\ pc = "start"
    /\ arg.cls = "DynaFlowConditionalRandomVariable"
    /\ self' = NewDynaFlowConditionalRandomVariable(arg.y, arg.dim, arg.time, arg.num_layers)
    /\ pc' = "ready"
    /\ UNCHANGED <<arg, loc, ret>>

\* the leading axes of the sampled tensors: none in
\* DynaFlowRandomVariable and in the n_example == 1 branch, the example axis
\* in the n_example > 1 branch
Lead ==
    IF arg.cls = "DynaFlowConditionalRandomVariable" /\ self.n_example # 1
    THEN <<self.n_example>>
    ELSE <<>>

Zeros(r) == [j \in 1..r |-> 0]

\* for every column of a tensor of samples, its own column number
ColumnIndex(shape) ==
    LET ix == Indices(shape)
    IN [shape |-> shape, data |-> [k \in 1..Len(ix) |-> QInt(ix[k][Len(shape)])]]

\* cur_latent with the block of the pair's first step, i, in place of i + 1
CurLatentOfSameStep(samples, i, dim, single_time_latent_size) ==
    TSlice(samples, Zeros(Len(single_time_latent_size) - 1) \o <<i * dim>>,
           single_time_latent_size)

\* cur_latent = tf.slice(samples, [.., (i + 1) * dim], single_time_latent_size)
CurLatent(samples, i, dim, single_time_latent_size) ==
    TSlice(samples, Zeros(Len(single_time_latent_size) - 1) \o <<(i + 1) * dim>>,
           single_time_latent_size)

\* the first half of the pair, again, carried as pre_latent
CarriedFirstHalf(latent_pair, dim, single_time_latent_size) ==
    TSlice(latent_pair, Zeros(Len(single_time_latent_size)), single_time_latent_size)

\* pre_latent = tf.slice(latent_pair, [.., self.dim], single_time_latent_size)
Carried(latent_pair, dim, single_time_latent_size) ==
    TSlice(latent_pair, Zeros(Len(single_time_latent_size) - 1) \o <<dim>>,
           single_time_latent_size)

\* sample_log_prob of both classes up to the loop over the pairs.  The
\* fields o_pre, o_pair, o_final follow pre_latent, latent_pair and
\* final_samples through the same slices and concatenations and hold, for
\* each of their columns, the column of the base sample it continues
\* (transform adds to its input column by column).
DynaSampleBegin ==
    /\ pc = "ready"
    /\ \E n_samples \in 1..MaxSamples, seed \in 0..(NumSeeds - 1) :
          LET shape == Lead \o <<n_samples, self.full_dim>>
              base == DrawBase(shape, seed)
              single_time_latent_size == Lead \o <<n_samples, self.dim>>
          IN loc' = [n_samples |-> n_samples, samples |-> base.samples,
                     log_prob |-> base.log_prob, final_samples |-> <<>>,
                     single_time_latent_size |-> single_time_latent_size,
                     pre_latent |-> TSlice(base.samples, Zeros(Len(shape)),
                                           single_time_latent_size),
                     latent_pair |-> NoObject, i |-> 0, k |-> 0,
                     o_pre |-> TSlice(ColumnIndex(shape), Zeros(Len(shape)),
                                      single_time_latent_size),
                     o_pair |-> NoObject, o_final |-> <<>>]
    /\ pc' = "time"
    /\ UNCHANGED <<arg, self, ret>>

\* the head of one iteration of "for i, time_flow in enumerate(self.flows)"
DynaPairBegin ==
    /\ pc = "time"
    /\ loc.i < Len(self.flows)
    /\ LET axis == Len(loc.single_time_latent_size) - 1
           cur_latent == CurLatent(loc.samples, loc.i, self.dim, loc.single_time_latent_size)
           o_cur == CurLatent(ColumnIndex(loc.samples.shape), loc.i, self.dim,
                              loc.single_time_latent_size)
       IN loc' = [loc EXCEPT !.latent_pair = TConcat2(loc.pre_latent, cur_latent, axis),
                             !.o_pair = TConcat2(loc.o_pre, o_cur, axis),
                             !.k = 0]
    /\ pc' = "layer"
    /\ UNCHANGED <<arg, self, ret>>

\* one iteration of "for layer in time_flow"
DynaLayerStep ==
    /\ pc = "layer"
    /\ loc.k < Len(self.flows[loc.i + 1])
    /\ LET layer == self.flows[loc.i + 1][loc.k + 1]
       IN loc' = [loc EXCEPT !.log_prob = StepLogProb(layer, loc.latent_pair, loc.log_prob),
                             !.latent_pair = transform(layer, loc.latent_pair),
                             !.k = loc.k + 1]
    /\ UNCHANGED <<pc, arg, self, ret>>

\* the tail of the iteration: the first half is finished, the second half
\* is carried
DynaPairEnd ==
    /\ pc = "layer"
    /\ loc.k = Len(self.flows[loc.i + 1])
    /\ LET size == loc.single_time_latent_size
       IN loc' = [loc EXCEPT
                    !.final_samples = Append(loc.final_samples,
                                             TSlice(loc.latent_pair, Zeros(Len(size)), size)),
                    !.pre_latent = Carried(loc.latent_pair, self.dim, size),
                    !.o_final = Append(loc.o_final, TSlice(loc.o_pair, Zeros(Len(size)), size)),
                    !.o_pre = Carried(loc.o_pair, self.dim, size),
                    !.i = loc.i + 1]
    /\ pc' = "time"
    /\ UNCHANGED <<arg, self, ret>>

\* after the loop: the carried pre_latent is the last step; concatenate
DynaReturn ==
    /\ pc = "time"
    /\ loc.i = Len(self.flows)
    /\ LET axis == Len(loc.single_time_latent_size) - 1
           final_samples == Append(loc.final_samples, loc.pre_latent)
           o_final == Append(loc.o_final, loc.o_pre)
       IN /\ loc' = [loc EXCEPT !.final_samples = final_samples, !.o_final = o_final]
          /\ ret' = [samples |-> TConcat(final_samples, axis), log_prob |-> loc.log_prob,
                     origin |-> TConcat(o_final, axis)]
    /\ pc' = "done"
    /\ UNCHANGED <<arg, self>>

NextDyna ==
    \/ DynaFlowRandomVariableInit
    \/ DynaFlowConditionalRandomVariableInit
    \/ DynaSampleBegin
    \/ DynaPairBegin
    \/ DynaLayerStep
    \/ DynaPairEnd
    \/ DynaReturn

SpecDyna == InitDyna /\ [][NextDyna]_vars

\* -------------------------------------------------------------- claims

\* dot product of row f (0-based) of two matrices, from that row alone
RowDot(a, b, f) ==
    QSum([j \in 1..a.shape[2] |-> QMul(At(a, <<f, j - 1>>), At(b, <<f, j - 1>>))])

RowIsZero(w, f) == \A j \in 1..w.shape[2] : At(w, <<f, j - 1>>).n = 0

HasUndef(t) == \E k \in 1..Len(t.data) : IsUndef(t.data[k])

\* C4: every constructed PlanarFlow has dot(u_bar, w) >= -1 in every one of
\* its n_flows rows, the dot product taken from that row alone
C4_ReversibilityEveryRow ==
    pc # "start" =>
        \A f \in 0..(self.n_flows - 1) :
            QGe(RowDot(self.u_bar, self.w, f), QInt(-1))

\* the rows with a non-zero w do satisfy dot(u_bar, w) >= -1
ReversibilityOfNonZeroRows ==
    pc # "start" =>
        \A f \in 0..(self.n_flows - 1) :
            ~RowIsZero(self.w, f) => QGe(RowDot(self.u_bar, self.w, f), QInt(-1))

\* C5: log_det_jacobian(x) has the shape of x without its feature axis
C5_LogDetShape ==
    (pc = "called" /\ ret.op = "log_det_jacobian") =>
        ret.out.shape = SubSeq(ret.inputs.shape, 1, Rank(ret.inputs) - 1)

\* with two or more samples per flow the shape is as documented
LogDetShapeOfBatches ==
    (pc = "called" /\ ret.op = "log_det_jacobian"
        /\ ret.inputs.shape[Rank(ret.inputs) - 1] > 1) =>
        ret.out.shape = SubSeq(ret.inputs.shape, 1, Rank(ret.inputs) - 1)

\* slice f (0-based) along the leading axis, that axis dropped
FlowSlice(t, f) ==
    LET sz == Prod(Tail(t.shape))
    IN [shape |-> Tail(t.shape), data |-> SubSeq(t.data, f * sz + 1, (f + 1) * sz)]

\* the single-flow PlanarFlow built from row f of (w, b, u)
SingleFrom(flow, f) ==
    PlanarFlow(flow.dim,
               TSlice(flow.w, <<f, 0>>, <<1, -1>>),
               TSlice(flow.b, <<f>>, <<1>>),
               TSlice(flow.u, <<f, 0>>, <<1, -1>>))

Apply(op, flow, x) ==
    IF op = "transform" THEN transform(flow, x) ELSE log_det_jacobian(flow, x)

\* C6: slice f of a multi-flow transform or log_det_jacobian is what the
\* single flow built from parameter row f returns on batch f
C6_MultiFlowIndependence ==
    (pc = "called" /\ self.n_flows > 1) =>
        \A f \in 0..(self.n_flows - 1) :
            FlowSlice(ret.out, f) = Apply(ret.op, SingleFrom(self, f), FlowSlice(ret.inputs, f))

\* a multi-flow with two different, well-defined parameter rows has
\* transformed two batches, and moved them
C6_Witness ==
    /\ pc = "called"
    /\ self.n_flows > 1
    /\ ret.op = "transform"
    /\ FlowSlice(self.w, 0) # FlowSlice(self.w, 1)
    /\ FlowSlice(self.b, 0) # FlowSlice(self.b, 1)
    /\ ~HasUndef(ret.out)
    /\ FlowSlice(ret.out, 0) # FlowSlice(ret.inputs, 0)
    /\ FlowSlice(ret.out, 1) # FlowSlice(ret.inputs, 1)
    /\ ret.inputs.shape[2] > 1

\* C7: a PlanarFlow with a zero-norm row of w is never constructed: no
\* flow that exists has an undefined u_bar
C7_NoUndefinedFlow ==
    pc \in {"ready", "called"} => ~HasUndef(self.u_bar)


\* the samples that enter layer k + 1 (leave layer k) of a list of flows
RECURSIVE InputOf(_, _, _)
InputOf(flows, base, k) ==
    IF k = 0 THEN base.samples
    ELSE transform(flows[k], InputOf(flows, base, k - 1))

\* the base log-probability plus the log_det_jacobian of layers 1 .. k, each
\* at the samples that enter it
RECURSIVE LogProbAfter(_, _, _)
LogProbAfter(flows, base, k) ==
    IF k = 0 THEN base.log_prob
    ELSE TAdd(LogProbAfter(flows, base, k - 1),
              log_det_jacobian(flows[k], InputOf(flows, base, k - 1)))

\* C1: sample_log_prob goes through the layers in list order; after k
\* layers, and on return, the log-probability is the base log-probability
\* plus every passed layer's log_det_jacobian at that layer's input, and the
\* samples are the base samples passed through those layers in order
C1_LogProbAccumulation ==
    /\ pc = "loop" =>
          /\ loc.samples = InputOf(Variable.flows, loc.base, loc.k)
          /\ loc.log_prob = LogProbAfter(Variable.flows, loc.base, loc.k)
    /\ pc = "done" =>
          /\ ret.samples = InputOf(Variable.flows, loc.base, Len(Variable.flows))
          /\ ret.log_prob = LogProbAfter(Variable.flows, loc.base, Len(Variable.flows))

\* two layers have run, each moved the samples, and the second layer's
\* log_det_jacobian at its input differs from the one at its output
C1_Witness ==
    /\ pc = "done"
    /\ Len(Variable.flows) = 2
    /\ ~HasUndef(ret.samples)
    /\ ~HasUndef(ret.log_prob)
    /\ InputOf(Variable.flows, loc.base, 1) # loc.base.samples
    /\ ret.samples # InputOf(Variable.flows, loc.base, 1)
    /\ log_det_jacobian(Variable.flows[2], InputOf(Variable.flows, loc.base, 1))
          # log_det_jacobian(Variable.flows[2], ret.samples)
    /\ ret.log_prob # loc.base.log_prob

\* element (e, j) of a parameter of a flow; b has one component per row
ParamAt(flow, name, e, j) ==
    IF name = "b" THEN flow.b.data[e + 1]
    ELSE IF name = "w" THEN At(flow.w, <<e, j>>) ELSE At(flow.u, <<e, j>>)

\* C8: FlowConditionalVariable holds flow_layers flows in order; layer i has
\* for w and u the columns [i dim_x, (i + 1) dim_x) and for b column i of the
\* mapping outputs, row e computed from row e of y; every layer has
\* n_flows = N; sample_log_prob runs on exactly these layers
C8_ConditionalFlowParameters ==
    (pc # "start" /\ arg.cls = "FlowConditionalVariable") =>
        LET flows == self.variable.flows
            N == arg.y.shape[1]
        IN /\ Len(flows) = arg.flow_layers
           /\ Variable.flows = flows
           /\ \A i \in 0..(arg.flow_layers - 1) :
                 LET flow == flows[i + 1]
                 IN /\ flow.n_flows = N
                    /\ flow.w.shape = <<N, arg.dim_x>>
                    /\ flow.u.shape = <<N, arg.dim_x>>
                    /\ Prod(flow.b.shape) = N
                    /\ \A e \in 0..(N - 1) :
                          /\ ParamAt(flow, "b", e, 0)
                                = QInt(MLPUnit(SaltB, InputRow(arg.y, e), i))
                          /\ \A j \in 0..(arg.dim_x - 1) :
                                /\ ParamAt(flow, "w", e, j)
                                      = QInt(MLPUnit(SaltW, InputRow(arg.y, e), i * arg.dim_x + j))
                                /\ ParamAt(flow, "u", e, j)
                                      = QInt(MLPUnit(SaltU, InputRow(arg.y, e), i * arg.dim_x + j))

\* a conditional variable over two examples with two layers of dimension
\* two, whose layers differ and whose examples differ, has been sampled
C8_Witness ==
    /\ pc = "done"
    /\ arg.cls = "FlowConditionalVariable"
    /\ arg.flow_layers = 2
    /\ arg.dim_x = 2
    /\ arg.y.shape[1] = 2
    /\ self.variable.flows[1].w # self.variable.flows[2].w
    /\ self.variable.flows[1].u # self.variable.flows[2].u
    /\ FlowSlice(self.variable.flows[1].w, 0) # FlowSlice(self.variable.flows[1].w, 1)
    /\ FlowSlice(self.w, 0) # FlowSlice(self.w, 1)

\* C10: num_layers of every FlowRandomVariable is the number of flows it
\* holds, and get_all_flow_params returns the concatenation of the w, of
\* the u and of the b of all of them in layer order
C10_AllFlowParams ==
    /\ pc # "start" => Variable.num_layers = Len(Variable.flows)
    /\ pc = "params" =>
          LET flows == Variable.flows
          IN /\ ret.all_w = TConcat([k \in 1..Len(flows) |-> flows[k].w], 1)
             /\ ret.all_u = TConcat([k \in 1..Len(flows) |-> flows[k].u], 1)
             /\ ret.all_b = TConcat([k \in 1..Len(flows) |-> flows[k].b], 0)

\* a FlowRandomVariable that created its own flows does keep num_layers
\* equal to their number
NumLayersOfOwnFlows ==
    (pc # "start" /\ arg.cls = "FlowRandomVariable") =>
        self.num_layers = Len(self.flows)

\* block k (0-based) of the given width along the last axis of a tensor
Block(t, k, width) ==
    LET r == Rank(t)
        ix == Indices([t.shape EXCEPT ![r] = width])
    IN [shape |-> [t.shape EXCEPT ![r] = width],
        data |-> [m \in 1..Len(ix) |-> At(t, [ix[m] EXCEPT ![r] = ix[m][r] + k * width])]]

\* x passed through the first k layers of a stack
RECURSIVE StackOut(_, _, _)
StackOut(layers, x, k) ==
    IF k = 0 THEN x ELSE transform(layers[k], StackOut(layers, x, k - 1))

\* the pair fed to the stack of pair t (0-based) and what the whole stack
\* makes of it, as the chain is described: the carried second half of the
\* stack before, next to the untransformed block t + 1 of the base sample
RECURSIVE PairIn(_, _, _, _)
RECURSIVE PairOut(_, _, _, _)
PairIn(flows, samples, dim, t) ==
    LET pre == IF t = 0 THEN Block(samples, 0, dim)
               ELSE Block(PairOut(flows, samples, dim, t - 1), 1, dim)
    IN TConcat2(pre, Block(samples, t + 1, dim), Rank(samples) - 1)

PairOut(flows, samples, dim, t) ==
    StackOut(flows[t + 1], PairIn(flows, samples, dim, t), Len(flows[t + 1]))

\* C2: the samples returned by the Dyna variants are time blocks of width
\* dim, the blocks in the order of the base sample's, block k continuing
\* block k of the base sample, none dropped and none twice; the feature
\* width is dim * time
C2_TimeBlocks ==
    pc = "done" =>
        /\ ret.samples.shape = Lead \o <<loc.n_samples, arg.dim * arg.time>>
        /\ Len(loc.final_samples) = arg.time
        /\ \A k \in 1..arg.time :
              loc.final_samples[k].shape = Lead \o <<loc.n_samples, arg.dim>>
        /\ ret.origin = ColumnIndex(loc.samples.shape)
        /\ arg.num_layers = 0 => ret.samples = loc.samples

\* three time steps of several examples went through a stack of layers
\* each, and came out changed
C2_Witness ==
    /\ pc = "done"
    /\ arg.cls = "DynaFlowConditionalRandomVariable"
    /\ self.n_example > 1
    /\ arg.time = 3
    /\ arg.dim = 2
    /\ arg.num_layers >= 1
    /\ ~HasUndef(ret.samples)
    /\ \A k \in 0..2 : Block(ret.samples, k, arg.dim) # Block(loc.samples, k, arg.dim)

\* C3: the stack of pair t is fed (pre_latent, cur_latent), cur_latent the
\* untransformed base block t + 1 and pre_latent the second half of what
\* the whole stack of pair t - 1 produced; the first half of stack t's
\* result is the output of step t and the last carried half that of the
\* last step
C3_ChainContinuity ==
    /\ pc = "layer" =>
          loc.latent_pair
             = StackOut(self.flows[loc.i + 1],
                        PairIn(self.flows, loc.samples, arg.dim, loc.i), loc.k)
    /\ pc = "done" =>
          LET outs == [t \in 1..(arg.time - 1) |->
                          PairOut(self.flows, loc.samples, arg.dim, t - 1)]
          IN \A k \in 0..(arg.time - 1) :
                 Block(ret.samples, k, arg.dim)
                    = IF k < arg.time - 1
                      THEN Block(outs[k + 1], 0, arg.dim)
                      ELSE Block(outs[arg.time - 1], 1, arg.dim)

\* a chain of three steps with two layers per pair: the middle step came
\* out of the first stack, was changed again by the second, and the last
\* step and the first were changed too
C3_Witness ==
    /\ pc = "done"
    /\ arg.time = 3
    /\ arg.num_layers = 2
    /\ ~HasUndef(ret.samples)
    /\ Block(ret.samples, 1, arg.dim)
          # Block(PairOut(self.flows, loc.samples, arg.dim, 0), 1, arg.dim)
    /\ Block(PairOut(self.flows, loc.samples, arg.dim, 0), 1, arg.dim)
          # Block(loc.samples, 1, arg.dim)
    /\ Block(ret.samples, 0, arg.dim) # Block(loc.samples, 0, arg.dim)
    /\ Block(ret.samples, 2, arg.dim) # Block(loc.samples, 2, arg.dim)

\* the observations of example e at the steps t and t + 1, side by side
PairObs(y, e, t, obs_dim) ==
    [j \in 1..(2 * obs_dim) |-> At(y, <<e, t * obs_dim + j - 1>>)]

\* C9: the parameters of flows[t][i] for example e are the columns
\* [i 2 dim, (i + 1) 2 dim) (column i for b) of the mapping outputs computed
\* from the observations (y[e][t], y[e][t + 1]), when the variable has
\* been constructed and still when it has been sampled
C9_TimeLayerParameters ==
    (pc \in {"ready", "done"} /\ arg.cls = "DynaFlowConditionalRandomVariable") =>
        LET N == arg.y.shape[1]
            obs_dim == arg.y.shape[2] \div arg.time
            D == 2 * arg.dim
        IN /\ Len(self.flows) = arg.time - 1
           /\ \A t \in 0..(arg.time - 2) :
                 /\ Len(self.flows[t + 1]) = arg.num_layers
                 /\ \A i \in 0..(arg.num_layers - 1) :
                       LET flow == self.flows[t + 1][i + 1]
                       IN /\ flow.n_flows = N
                          /\ flow.w.shape = <<N, D>>
                          /\ flow.u.shape = <<N, D>>
                          /\ flow.b.shape = <<N>>
                          /\ \A e \in 0..(N - 1) :
                                LET obs == PairObs(arg.y, e, t, obs_dim)
                                IN /\ ParamAt(flow, "b", e, 0) = QInt(MLPUnit(SaltB, obs, i))
                                   /\ \A j \in 0..(D - 1) :
                                         /\ ParamAt(flow, "w", e, j)
                                               = QInt(MLPUnit(SaltW, obs, i * D + j))
                                         /\ ParamAt(flow, "u", e, j)
                                               = QInt(MLPUnit(SaltU, obs, i * D + j))

\* two examples over three steps with two layers: the parameters differ
\* between the examples, between the pairs and between the layers
C9_Witness ==
    /\ pc # "start"
    /\ arg.cls = "DynaFlowConditionalRandomVariable"
    /\ arg.y.shape[1] = 2
    /\ arg.time = 3
    /\ arg.num_layers = 2
    /\ self.flows[1][1].w # self.flows[2][1].w
    /\ self.flows[1][1].w # self.flows[1][2].w
    /\ FlowSlice(self.flows[1][1].w, 0) # FlowSlice(self.flows[1][1].w, 1)
    /\ FlowSlice(self.flows[2][1].u, 0) # FlowSlice(self.flows[2][1].u, 1)

====
